---- MODULE Spec2Model ----
(***************************************************************************)
(* JDAT: a text file format made of named, linked content blocks, each    *)
(* independently encryptable (files/jdat.py, files/crypto.py).            *)
(*                                                                         *)
(* A Python str is modelled as a sequence of one-character strings, so    *)
(* that the regular expressions of _parse, the strip/splitlines/partition *)
(* calls of parse_data and the f-strings of to_jdat are computed          *)
(* character by character.                                                *)
(***************************************************************************)
EXTENDS Integers, Sequences, FiniteSets, TLC

VARIABLES blocks, comments, disk, saves, last

vars == <<blocks, comments, disk, saves, last>>

(***************************************************************************)
(* Bounds of the model.                                                    *)
(***************************************************************************)
\* add_block is not called on a file that already holds MaxBlocks blocks
MaxBlocks == 2
\* save is called at most MaxSaves times
MaxSaves == 1

(***************************************************************************)
(* Characters and str methods.                                             *)
(***************************************************************************)
\* str.strip() / \s : the whitespace characters of the modelled alphabet
WS == {" ", "\n", "\t"}

\* \d
Digits == {"0", "1", "2", "3", "4", "5", "6", "7", "8", "9"}

DigitVal == [d \in Digits |->
    CASE d = "0" -> 0 [] d = "1" -> 1 [] d = "2" -> 2 [] d = "3" -> 3
      [] d = "4" -> 4 [] d = "5" -> 5 [] d = "6" -> 6 [] d = "7" -> 7
      [] d = "8" -> 8 [] d = "9" -> 9]

DigitChr == <<"0", "1", "2", "3", "4", "5", "6", "7", "8", "9">>

Min(S) == CHOOSE x \in S : \A y \in S : x <= y

\* s[i:] with i a 1-based index
From(s, i) == SubSeq(s, i, Len(s))

\* s.startswith(lit, i-1): the literal lit stands in s at index i
Lit(s, i, lit) ==
    /\ i + Len(lit) - 1 <= Len(s)
    /\ \A j \in 1..Len(lit) : s[i + j - 1] = lit[j]

\* the length of the longest run of characters of class C that starts at i
RECURSIVE RunLen(_, _, _)
RunLen(s, i, C) ==
    IF i <= Len(s) /\ s[i] \in C THEN 1 + RunLen(s, i + 1, C) ELSE 0

\* the length of the longest run of characters outside class C that starts at i
RECURSIVE RunLenNot(_, _, _)
RunLenNot(s, i, C) ==
    IF i <= Len(s) /\ s[i] \notin C THEN 1 + RunLenNot(s, i + 1, C) ELSE 0

\* str.lstrip()
RECURSIVE lstrip(_)
lstrip(s) == IF s # <<>> /\ Head(s) \in WS THEN lstrip(Tail(s)) ELSE s

\* str.rstrip()
RECURSIVE rstrip(_)
rstrip(s) ==
    IF s # <<>> /\ s[Len(s)] \in WS THEN rstrip(SubSeq(s, 1, Len(s) - 1)) ELSE s

\* str.strip()
strip(s) == lstrip(rstrip(s))

\* str.splitlines(): the lines of s, without their line ends; a final line
\* end opens no empty last line
RECURSIVE splitlines(_)
splitlines(s) ==
    IF s = <<>> THEN <<>>
    ELSE LET n == RunLenNot(s, 1, {"\n"})
         IN  <<SubSeq(s, 1, n)>> \o splitlines(From(s, n + 2))

\* sep.join(parts)
RECURSIVE join(_, _)
join(sep, parts) ==
    IF parts = <<>> THEN <<>>
    ELSE IF Len(parts) = 1 THEN parts[1]
    ELSE parts[1] \o sep \o join(sep, Tail(parts))

\* int(digits)
RECURSIVE int(_)
int(ds) ==
    IF ds = <<>> THEN 0
    ELSE 10 * int(SubSeq(ds, 1, Len(ds) - 1)) + DigitVal[ds[Len(ds)]]

\* str(n) for n >= 0, as the f-string {self.type} renders it
RECURSIVE str(_)
str(n) ==
    IF n < 10 THEN <<DigitChr[n + 1]>>
    ELSE str(n \div 10) \o <<DigitChr[(n % 10) + 1]>>

(***************************************************************************)
(* JDATFile._parse: the two regular expressions, matched as Python's      *)
(* backtracking matcher does: a greedy quantifier takes the longest run   *)
(* after which the rest of the pattern matches, a lazy one the shortest.  *)
(* A match result is a record with ok, end (the index after the match)    *)
(* and the groups captured so far.                                        *)
(***************************************************************************)
NoMatch == [ok |-> FALSE]

\* the indexes from p on where the literal lit stands in text
occurrences(text, p, lit) == {i \in p..Len(text) : Lit(text, i, lit)}

\* the least index of a set of indexes, 0 if it has none
first_of(S) == IF S = {} THEN 0 ELSE Min(S)

\* text.find(lit, p-1) + 1: the first index from p on where the literal lit
\* stands in text, 0 if none
find(text, p, lit) == first_of(occurrences(text, p, lit))

\* a match m if it is one, the alternative tried next if it is not
OrElse(m, alternative) == IF m.ok THEN m ELSE alternative

\* a match m with the group it closes, if it is a match
WithGroup(m, group) == IF m.ok THEN m @@ group ELSE m

\* the match that ends with the "})" found at index e (0: there is none)
content_match(text, q, e) ==
    IF e = 0 THEN NoMatch
    ELSE [ok |-> TRUE, end |-> e + 2, content |-> SubSeq(text, q, e - 1)]

\* (.*?)\}\)  with DOTALL: the shortest content followed by "})"
re_content(text, q) == content_match(text, q, find(text, q, <<"}", ")">>))

\* \s*\{ : k whitespace characters are tried, then fewer
RECURSIVE re_brace(_, _, _)
re_brace(text, q, k) ==
    IF k < 0 THEN NoMatch
    ELSE OrElse(IF Lit(text, q + k, <<"{">>) THEN re_content(text, q + k + 1)
                ELSE NoMatch,
                re_brace(text, q, k - 1))

\* (encrypted)? : the group is tried first, then skipped
re_encrypted(text, q) ==
    OrElse(WithGroup(IF Lit(text, q, <<"e", "n", "c", "r", "y", "p", "t", "e", "d">>)
                     THEN re_brace(text, q + 9, RunLen(text, q + 9, WS))
                     ELSE NoMatch,
                     [enc |-> TRUE]),
           WithGroup(re_brace(text, q, RunLen(text, q, WS)), [enc |-> FALSE]))

\* \s* before (encrypted)? : k whitespace characters are tried, then fewer
RECURSIVE re_type_ws(_, _, _)
re_type_ws(text, q, k) ==
    IF k < 0 THEN NoMatch
    ELSE OrElse(re_encrypted(text, q + k), re_type_ws(text, q, k - 1))

\* (\d+) : k digits are tried, then fewer, down to one
RECURSIVE re_type_digits(_, _, _)
re_type_digits(text, q, k) ==
    IF k < 1 THEN NoMatch
    ELSE OrElse(WithGroup(re_type_ws(text, q + k, RunLen(text, q + k, WS)),
                          [btype |-> int(SubSeq(text, q, q + k - 1))]),
                re_type_digits(text, q, k - 1))

\* t:(\d+)\s*(encrypted)?\s*\{(.*?)\}\)
re_type(text, q) ==
    IF Lit(text, q, <<"t", ":">>)
    THEN re_type_digits(text, q + 2, RunLen(text, q + 2, Digits))
    ELSE NoMatch

\* \s+ before t: : k whitespace characters are tried, then fewer, down to one
RECURSIVE re_link_ws(_, _, _)
re_link_ws(text, q, k) ==
    IF k < 1 THEN NoMatch
    ELSE OrElse(re_type(text, q + k), re_link_ws(text, q, k - 1))

\* (\S+) of the link: k characters are tried, then fewer, down to one
RECURSIVE re_link_token(_, _, _)
re_link_token(text, q, k) ==
    IF k < 1 THEN NoMatch
    ELSE OrElse(WithGroup(re_link_ws(text, q + k, RunLen(text, q + k, WS)),
                          [link |-> SubSeq(text, q, q + k - 1)]),
                re_link_token(text, q, k - 1))

\* l:(\S+)\s+t:...
re_link(text, q) ==
    IF Lit(text, q, <<"l", ":">>)
    THEN re_link_token(text, q + 2, RunLenNot(text, q + 2, WS))
    ELSE NoMatch

\* \s+ before l: : k whitespace characters are tried, then fewer, down to one
RECURSIVE re_name_ws(_, _, _)
re_name_ws(text, q, k) ==
    IF k < 1 THEN NoMatch
    ELSE OrElse(re_link(text, q + k), re_name_ws(text, q, k - 1))

\* (\S+) of the name: k characters are tried, then fewer, down to one
RECURSIVE re_name_token(_, _, _)
re_name_token(text, q, k) ==
    IF k < 1 THEN NoMatch
    ELSE OrElse(WithGroup(re_name_ws(text, q + k, RunLen(text, q + k, WS)),
                          [name |-> SubSeq(text, q, q + k - 1)]),
                re_name_token(text, q, k - 1))

\* block_pattern matched at index q
block_pattern(text, q) ==
    IF Lit(text, q, <<"(", "n", ":">>)
    THEN re_name_token(text, q + 3, RunLenNot(text, q + 3, WS))
    ELSE NoMatch

\* the comment match that ends with the ">})" found at index e (0: none)
comment_match(text, q, e) ==
    IF e = 0 THEN NoMatch
    ELSE [ok |-> TRUE, end |-> e + 3, text |-> SubSeq(text, q + 3, e - 1)]

\* \(\{<(.*?)>\}\) matched at index q
comment_pattern(text, q) ==
    IF Lit(text, q, <<"(", "{", "<">>)
    THEN comment_match(text, q, find(text, q + 3, <<">", "}", ")">>))
    ELSE NoMatch

\* JDATBlock.__init__: _data starts as None, modelled as <<>>; a cached dict
\* d is <<d>>, a dict being the sequence of its <<key, value>> items
JDATBlock(name, link, btype, content, encrypted) ==
    [name |-> name, link |-> link, type |-> btype, content |-> content,
     encrypted |-> encrypted, data |-> <<>>]

\* block_pattern.finditer(text): the blocks of the matches found from index p
\* on; a match can only start where the literal "(n:" stands
RECURSIVE parse_blocks(_, _)

\* the block of the match m tried at index q, and those of the matches after it
blocks_from(text, q, m) ==
    IF m.ok
    THEN <<JDATBlock(m.name, m.link, m.btype, m.content, m.enc)>>
         \o parse_blocks(text, m.end)
    ELSE parse_blocks(text, q + 1)

\* the blocks of the matches found from index q on, the next "(n:" (0: none)
blocks_at(text, q) ==
    IF q = 0 THEN <<>> ELSE blocks_from(text, q, block_pattern(text, q))

parse_blocks(text, p) == blocks_at(text, find(text, p, <<"(", "n", ":">>))

\* comment_pattern.finditer(text): the stripped group of each match; a match
\* can only start where the literal "({<" stands
RECURSIVE parse_comments(_, _)

\* the comment of the match m tried at index q, and those of the matches after it
comments_from(text, q, m) ==
    IF m.ok THEN <<strip(m.text)>> \o parse_comments(text, m.end)
    ELSE parse_comments(text, q + 1)

\* the comments of the matches found from index q on, the next "({<" (0: none)
comments_at(text, q) ==
    IF q = 0 THEN <<>> ELSE comments_from(text, q, comment_pattern(text, q))

parse_comments(text, p) == comments_at(text, find(text, p, <<"(", "{", "<">>))

(***************************************************************************)
(* JDATBlock: the structured view of a type 1 block and its cache.        *)
(***************************************************************************)
\* d[key] = value done as a deletion and an insertion: the key goes last
dict_set_moves_key(d, key, value) ==
    SelectSeq(d, LAMBDA kv : kv[1] # key) \o <<<<key, value>>>>

\* d[key] = value on an insertion-ordered dict: an existing key keeps its
\* place, a new key goes last
dict_set(d, key, value) ==
    IF \E i \in 1..Len(d) : d[i][1] = key
    THEN [i \in 1..Len(d) |-> IF d[i][1] = key THEN <<key, value>> ELSE d[i]]
    ELSE Append(d, <<key, value>>)

\* d.get(key, default)
dict_get(d, key, default) ==
    IF \E i \in 1..Len(d) : d[i][1] = key
    THEN d[CHOOSE i \in 1..Len(d) : d[i][1] = key][2]
    ELSE default

\* line.partition(':') of a line that holds a ':' : <<before, after>>
partition(line) ==
    LET n == RunLenNot(line, 1, {":"})
    IN  <<SubSeq(line, 1, n), From(line, n + 2)>>

\* the loop of parse_data over the lines, from the dict built so far
RECURSIVE parse_lines(_, _)
parse_lines(lines, data) ==
    IF lines = <<>> THEN data
    ELSE LET line == strip(Head(lines))
         IN  IF line = <<>> \/ \A i \in 1..Len(line) : line[i] # ":"
             THEN parse_lines(Tail(lines), data)
             ELSE LET kv == partition(line)
                  IN  parse_lines(Tail(lines),
                                  dict_set(data, strip(kv[1]), strip(kv[2])))

\* JDATBlock.parse_data: the dict it returns
parse_data(b) ==
    IF b.type # 1 THEN <<>>
    ELSE IF b.data # <<>> THEN b.data[1]
    ELSE parse_lines(splitlines(strip(b.content)), <<>>)

\* JDATBlock.parse_data: the block after the call (the dict is cached)
parse_data_cache(b) ==
    IF b.type # 1 \/ b.data # <<>> THEN b
    ELSE [b EXCEPT !.data = <<parse_data(b)>>]

\* f"  {k}: {v}"
item_line(kv) == <<" ", " ">> \o kv[1] \o <<":", " ">> \o kv[2]

\* JDATBlock._rebuild_content
_rebuild_content(b) ==
    IF b.type = 1 /\ b.data # <<>>
    THEN [b EXCEPT !.content =
            join(<<"\n">>, [i \in 1..Len(b.data[1]) |-> item_line(b.data[1][i])])]
    ELSE b

\* JDATBlock.get: the value returned
get(b, key, default) == dict_get(parse_data(b), key, default)

\* JDATBlock.set: the block after the call
set(b, key, value) ==
    _rebuild_content([b EXCEPT !.data = <<dict_set(parse_data(b), key, value)>>])

\* JDATBlock.to_jdat: the block after the call (type 1 content is rebuilt)
block_flush(b) ==
    IF ~b.encrypted /\ b.type = 1 THEN _rebuild_content(b) ELSE b

\* to_jdat writing the header of an unencrypted block for every block
block_to_jdat_unmarked(b) ==
    <<"(", "n", ":">> \o b.name \o <<" ", "l", ":">> \o b.link
    \o <<" ", "t", ":">> \o str(b.type)
    \o (IF b.type = 1 THEN <<" ", "{">> ELSE <<"{">>)
    \o <<"\n">> \o block_flush(b).content \o <<"\n", "}", ")">>

\* JDATBlock.to_jdat: the text returned
block_to_jdat(b) ==
    LET header == <<"(", "n", ":">> \o b.name \o <<" ", "l", ":">> \o b.link
                  \o <<" ", "t", ":">> \o str(b.type)
        brace  == IF b.encrypted
                  THEN <<"e", "n", "c", "r", "y", "p", "t", "e", "d", "{">>
                  ELSE IF b.type = 1 THEN <<" ", "{">> ELSE <<"{">>
    IN  header \o brace \o <<"\n">> \o block_flush(b).content
        \o <<"\n", "}", ")">>

\* JDATFile.to_jdat: the text returned
file_to_jdat(cs, bs) ==
    join(<<"\n", "\n">>,
         [i \in 1..Len(cs) |-> <<"(", "{", "<">> \o cs[i] \o <<">", "}", ")">>]
         \o [i \in 1..Len(bs) |-> block_to_jdat(bs[i])])
    \o <<"\n">>

(***************************************************************************)
(* JDATCrypto.  A key is the pair the hash is taken of; a package is      *)
(* modelled after its base64 encoding, as one symbol for the salt, one    *)
(* for the nonce, one per ciphertext byte, and the GCM tag last (the tag  *)
(* is the symbols of the key and nonce it was computed under).  No symbol *)
(* of a package is whitespace or ':', as in the base64 alphabet.          *)
(***************************************************************************)
\* <<os.urandom(SALT_SIZE), os.urandom(NONCE_SIZE)>>: the outcomes of the two
\* random draws of one encrypt call that the model follows
Randoms == {<<"s1", "n1">>, <<"s2", "n2">>}

\* the characters a plaintext is written in, and the ciphertext symbol of each
Plain == <<" ", "\n", ":", "a", "g", "e", "3", "0", "1", "k", "v", "n", "m",
           "A", "l", "i", "c">>

Cipher == <<"c00", "c01", "c02", "c03", "c04", "c05", "c06", "c07", "c08",
            "c09", "c10", "c11", "c12", "c13", "c14", "c15", "c16">>

\* a key derived from the salt alone
_derive_key_from_salt(password, salt) == <<"", salt>>

\* JDATCrypto._derive_key
_derive_key(password, salt) == <<password, salt>>

\* AESGCM(key).encrypt(nonce, data, None): ciphertext with the tag appended
aesgcm_encrypt(key, nonce, data) ==
    [i \in 1..Len(data) |->
        Cipher[CHOOSE j \in 1..Len(Plain) : Plain[j] = data[i]]]
    \o key \o <<nonce>>

\* AESGCM(key).decrypt(nonce, ct, None): [ok, pt]; InvalidTag is ok = FALSE
aesgcm_decrypt(key, nonce, ct) ==
    LET n == Len(ct) - 3
    IN  IF /\ n >= 0
           /\ SubSeq(ct, n + 1, n + 3) = key \o <<nonce>>
           /\ \A i \in 1..n : \E j \in 1..Len(Cipher) : Cipher[j] = ct[i]
        THEN [ok |-> TRUE,
              pt |-> [i \in 1..n |->
                        Plain[CHOOSE j \in 1..Len(Cipher) : Cipher[j] = ct[i]]]]
        ELSE [ok |-> FALSE]

\* base64.b64decode(s): characters outside the alphabet are discarded
RECURSIVE b64decode(_)
b64decode(s) ==
    IF s = <<>> THEN <<>>
    ELSE IF Head(s) \in WS \cup {":"} THEN b64decode(Tail(s))
    ELSE <<Head(s)>> \o b64decode(Tail(s))

\* JDATCrypto.encrypt, with the two random draws made explicit
crypto_encrypt(plaintext, password, salt, nonce) ==
    <<salt, nonce>> \o aesgcm_encrypt(_derive_key(password, salt), nonce, plaintext)

\* JDATCrypto.decrypt: [ok, pt]; ok = FALSE is the ValueError it raises
crypto_decrypt(ciphertext_b64, password) ==
    LET raw == b64decode(strip(ciphertext_b64))
    IN  IF Len(raw) < 2 THEN [ok |-> FALSE]
        ELSE aesgcm_decrypt(_derive_key(password, raw[1]), raw[2], From(raw, 3))

(***************************************************************************)
(* The arguments the operations are called with.                          *)
(***************************************************************************)
Names == {<<"u", "s", "e", "r">>}

LinkU1 == <<"u", "1">>

Links == {LinkU1, <<"k">>}

Types == {1, 2}

\* "  age: 30"
ContentAge == <<" ", " ", "a", "g", "e", ":", " ", "3", "0">>

Contents == {ContentAge, <<"i", "c", "e">>}

KeyAge == <<"a", "g", "e">>

Keys == {KeyAge, <<"k">>}

Value31 == <<"3", "1">>

Values == {Value31, <<"v">>}

Passwords == {"secret123", "wrong"}

\* "(n:user l:u1 t:1 {\n  name: Alice\n  age: 30\n})\n"
TextUser ==
    <<"(", "n", ":", "u", "s", "e", "r", " ", "l", ":", "u", "1", " ", "t", ":",
      "1", " ", "{", "\n", " ", " ", "n", "a", "m", "e", ":", " ", "A", "l", "i",
      "c", "e", "\n", " ", " ", "a", "g", "e", ":", " ", "3", "0", "\n", "}", ")",
      "\n">>

\* "({< ice >})\n(n:user l:k t:2{ice})\n\n(n:k l:k t:01 {\nk:v\n\nage : 30\nk: 1})"
TextTwo ==
    <<"(", "{", "<", " ", "i", "c", "e", " ", ">", "}", ")", "\n",
      "(", "n", ":", "u", "s", "e", "r", " ", "l", ":", "k", " ", "t", ":", "2",
      "{", "i", "c", "e", "}", ")", "\n", "\n",
      "(", "n", ":", "k", " ", "l", ":", "k", " ", "t", ":", "0", "1", " ", "{",
      "\n", "k", ":", "v", "\n", "\n", "a", "g", "e", " ", ":", " ", "3", "0",
      "\n", "k", ":", " ", "1", "}", ")">>

\* the texts of the files a JDATFile is opened from
InputTexts == {TextUser, TextTwo}

(***************************************************************************)
(* JDATFile.                                                               *)
(***************************************************************************)
\* the value of last: the operation last called, the link it was called with
\* and how it ended (what it returned, or the exception it raised)
Call(op, link, out) == [op |-> op, link |-> link, out |-> out]

NoLink == <<>>

\* disk: what is at the file's own path, <<>> when there is no file;
\* saves: the number of calls of save so far

Raised(out) == out \notin {"None", "True", "False", "str"}

\* the lookup of get_by_name given the link: the name is compared
index_by_link_on_name(bs, link) ==
    IF \E i \in 1..Len(bs) : bs[i].name = link
    THEN Min({i \in 1..Len(bs) : bs[i].name = link})
    ELSE 0

\* the index of the block get_by_link returns, 0 for None
index_by_link(bs, link) ==
    IF \E i \in 1..Len(bs) : bs[i].link = link
    THEN Min({i \in 1..Len(bs) : bs[i].link = link})
    ELSE 0

\* JDATFile.__init__
JDATFile ==
    /\ blocks = <<>>
    /\ comments = <<>>
    /\ disk = <<>>
    /\ saves = 0
    /\ last = Call("JDATFile", NoLink, "None")

\* JDATFile(path).load() on the path of an input file, as cmd_open makes a file
open(text) ==
    /\ blocks = parse_blocks(text, 1)
    /\ comments = parse_comments(text, 1)
    /\ disk = <<text>>
    /\ saves = 0
    /\ last = Call("load", NoLink, "None")

\* a file is created empty, or by parsing the text of an input file
Init == JDATFile \/ \E text \in InputTexts : open(text)

\* JDATFile._parse
_parse(text) ==
    /\ blocks' = parse_blocks(text, 1)
    /\ comments' = parse_comments(text, 1)

\* JDATFile.load, file being what is at the file's path
load(file) ==
    IF file = <<>>
    THEN /\ last' = Call("load", NoLink, "FileNotFoundError")
         /\ UNCHANGED <<blocks, comments, disk, saves>>
    ELSE /\ _parse(file[1])
         /\ last' = Call("load", NoLink, "None")
         /\ UNCHANGED <<disk, saves>>

\* add_block without its lookup of the link
add_block_unchecked(name, link, btype, content) ==
    /\ Len(blocks) < MaxBlocks
    /\ blocks' = Append(blocks, JDATBlock(name, link, btype, content, FALSE))
    /\ last' = Call("add_block", link, "None")
    /\ UNCHANGED <<comments, disk, saves>>

\* JDATFile.add_block
add_block(name, link, btype, content) ==
    /\ Len(blocks) < MaxBlocks \/ index_by_link(blocks, link) # 0
    /\ IF index_by_link(blocks, link) # 0
       THEN /\ last' = Call("add_block", link, "ValueError: lien existe deja")
            /\ UNCHANGED <<blocks, comments, disk, saves>>
       ELSE /\ blocks' = Append(blocks, JDATBlock(name, link, btype, content, FALSE))
            /\ last' = Call("add_block", link, "None")
            /\ UNCHANGED <<comments, disk, saves>>

\* remove_block deleting every block of the link, not the first one only
remove_block_all(link) ==
    IF \E i \in 1..Len(blocks) : blocks[i].link = link
    THEN /\ blocks' = SelectSeq(blocks, LAMBDA b : b.link # link)
         /\ last' = Call("remove_block", link, "True")
         /\ UNCHANGED <<comments, disk, saves>>
    ELSE /\ last' = Call("remove_block", link, "False")
         /\ UNCHANGED <<blocks, comments, disk, saves>>

\* JDATFile.remove_block
remove_block(link) ==
    LET i == index_by_link(blocks, link)
    IN  IF i # 0
        THEN /\ blocks' = SubSeq(blocks, 1, i - 1) \o From(blocks, i + 1)
             /\ last' = Call("remove_block", link, "True")
             /\ UNCHANGED <<comments, disk, saves>>
        ELSE /\ last' = Call("remove_block", link, "False")
             /\ UNCHANGED <<blocks, comments, disk, saves>>

\* JDATFile.encrypt_block
encrypt_block(link, password) ==
    LET i == index_by_link(blocks, link)
    IN  IF i = 0
        THEN /\ last' = Call("encrypt_block", link, "False")
             /\ UNCHANGED <<blocks, comments, disk, saves>>
        ELSE IF blocks[i].encrypted
        THEN /\ last' = Call("encrypt_block", link, "ValueError: Bloc deja chiffre")
             /\ UNCHANGED <<blocks, comments, disk, saves>>
        ELSE \E rnd \in Randoms :
                LET b == IF blocks[i].type = 1 THEN _rebuild_content(blocks[i])
                         ELSE blocks[i]
                IN  /\ blocks' = [blocks EXCEPT ![i] =
                          [b EXCEPT !.content =
                                crypto_encrypt(b.content, password, rnd[1], rnd[2]),
                             !.encrypted = TRUE]]
                    /\ last' = Call("encrypt_block", link, "True")
                    /\ UNCHANGED <<comments, disk, saves>>

\* decrypt_block without its test of the encrypted flag
decrypt_block_unchecked(link, password) ==
    LET i == index_by_link(blocks, link)
    IN  IF i = 0
        THEN /\ last' = Call("decrypt_block", link, "False")
             /\ UNCHANGED <<blocks, comments, disk, saves>>
        ELSE LET r == crypto_decrypt(blocks[i].content, password)
             IN  IF ~r.ok
                 THEN /\ last' = Call("decrypt_block", link,
                                      "ValueError: Mot de passe incorrect ou donnees corrompues")
                      /\ UNCHANGED <<blocks, comments, disk, saves>>
                 ELSE /\ blocks' = [blocks EXCEPT ![i] =
                            [@ EXCEPT !.content = r.pt, !.encrypted = FALSE,
                                      !.data = <<>>]]
                      /\ last' = Call("decrypt_block", link, "True")
                      /\ UNCHANGED <<comments, disk, saves>>

\* JDATFile.decrypt_block
decrypt_block(link, password) ==
    LET i == index_by_link(blocks, link)
    IN  IF i = 0
        THEN /\ last' = Call("decrypt_block", link, "False")
             /\ UNCHANGED <<blocks, comments, disk, saves>>
        ELSE IF ~blocks[i].encrypted
        THEN /\ last' = Call("decrypt_block", link, "ValueError: Bloc non chiffre")
             /\ UNCHANGED <<blocks, comments, disk, saves>>
        ELSE LET r == crypto_decrypt(blocks[i].content, password)
             IN  IF ~r.ok
                 THEN /\ last' = Call("decrypt_block", link,
                                      "ValueError: Mot de passe incorrect ou donnees corrompues")
                      /\ UNCHANGED <<blocks, comments, disk, saves>>
                 ELSE /\ blocks' = [blocks EXCEPT ![i] =
                            [@ EXCEPT !.content = r.pt, !.encrypted = FALSE,
                                      !.data = <<>>]]
                      /\ last' = Call("decrypt_block", link, "True")
                      /\ UNCHANGED <<comments, disk, saves>>

\* JDATFile.save
save ==
    /\ saves < MaxSaves
    /\ saves' = saves + 1
    /\ disk' = <<file_to_jdat(comments, blocks)>>
    /\ blocks' = [i \in 1..Len(blocks) |-> block_flush(blocks[i])]
    /\ last' = Call("save", NoLink, "None")
    /\ UNCHANGED comments

\* get_by_link(link).get(key): a caller reads a key of the block it looked up
block_get(link, key) ==
    LET i == index_by_link(blocks, link)
    IN  /\ i # 0
        /\ blocks' = [blocks EXCEPT ![i] = parse_data_cache(@)]
        /\ last' = Call("get", link,
                        IF get(blocks[i], key, <<>>) = <<>> THEN "None" ELSE "str")
        /\ UNCHANGED <<comments, disk, saves>>

\* get_by_link(link).set(key, value), as cmd_edit calls it
block_set(link, key, value) ==
    LET i == index_by_link(blocks, link)
    IN  /\ i # 0
        /\ blocks' = [blocks EXCEPT ![i] = set(@, key, value)]
        /\ last' = Call("set", link, "None")
        /\ UNCHANGED <<comments, disk, saves>>

\* get_by_link(link).content = content: content is a plain attribute of the
\* block, assigned from outside the class (cmd_edit does so on a block of a
\* type other than 1, after its test that the block is not encrypted)
block_content(link, content) ==
    LET i == index_by_link(blocks, link)
    IN  /\ i # 0
        /\ ~blocks[i].encrypted
        /\ blocks' = [blocks EXCEPT ![i].content = content]
        /\ last' = Call("content", link, "None")
        /\ UNCHANGED <<comments, disk, saves>>

\* the operations on a file in memory, called with arguments of the given sets
Ops(links, types, contents, keys, values) ==
    \/ \E n \in Names, l \in links, t \in types, c \in contents : add_block(n, l, t, c)
    \/ \E l \in links : remove_block(l)
    \/ \E l \in links, pw \in Passwords : encrypt_block(l, pw)
    \/ \E l \in links, pw \in Passwords : decrypt_block(l, pw)
    \/ \E l \in links, k \in keys : block_get(l, k)
    \/ \E l \in links, k \in keys, v \in values : block_set(l, k, v)
    \/ \E l \in links, c \in contents : block_content(l, c)

\* the registry: a file created empty and modified in memory, never parsed
NextMem == Ops(Links, Types, {ContentAge}, {KeyAge}, {Value31})

SpecMem == JDATFile /\ [][NextMem]_vars

\* the structured view: one block of a file created empty, never parsed
NextView == Ops({LinkU1}, Types, Contents, Keys, Values)

SpecView == JDATFile /\ [][NextView]_vars

\* files: a file created empty or opened from a text, saved and loaded again
Next ==
    \/ load(disk)
    \/ save
    \/ \E l \in Links : remove_block(l)
    \/ \E l \in Links, pw \in Passwords : encrypt_block(l, pw)
    \/ \E l \in Links, pw \in Passwords : decrypt_block(l, pw)
    \/ \E l \in Links, k \in {KeyAge} : block_get(l, k)
    \/ \E l \in Links, k \in {KeyAge}, v \in {Value31} : block_set(l, k, v)

Spec == Init /\ [][Next]_vars

(***************************************************************************)
(* The shell (files/shell.py): the commands that encrypt, decrypt and      *)
(* delete a block.  last.out is what the command prints: "print_ok", or    *)
(* "print_err: " and the message.                                          *)
(***************************************************************************)
\* the index of the block get_by_name returns, 0 for None
index_by_name(bs, name) ==
    IF \E i \in 1..Len(bs) : bs[i].name = name
    THEN Min({i \in 1..Len(bs) : bs[i].name = name})
    ELSE 0

\* jf.get_by_link(target) or jf.get_by_name(target): the index of the block,
\* 0 for None
resolve(bs, target) ==
    IF index_by_link(bs, target) # 0 THEN index_by_link(bs, target)
    ELSE index_by_name(bs, target)

\* the arguments of the commands: a link or a name (the link of the current
\* block when the command line gives none)
Targets == Links \cup Names

\* display_block: the block after the call (the view of an unencrypted type 1
\* block is read)
display_block(b) == IF b.encrypted THEN b ELSE parse_data_cache(b)

\* cmd_enc, pwd and pwd2 being the two passwords typed
cmd_enc(target, pwd, pwd2) ==
    LET i == resolve(blocks, target)
        j == index_by_link(blocks, target)
    IN  /\ UNCHANGED <<comments, disk, saves>>
        /\ IF i = 0
           THEN /\ last' = Call("cmd_enc", target, "print_err: Bloc introuvable")
                /\ UNCHANGED blocks
           ELSE IF blocks[i].encrypted
           THEN /\ last' = Call("cmd_enc", target, "print_err: Ce bloc est deja chiffre")
                /\ UNCHANGED blocks
           ELSE IF pwd # pwd2
           THEN /\ last' = Call("cmd_enc", target,
                                "print_err: Les mots de passe ne correspondent pas")
                /\ UNCHANGED blocks
           \* jf.encrypt_block(target, pwd): what it returns is not looked at
           ELSE IF j = 0
           THEN /\ last' = Call("cmd_enc", target, "print_ok")
                /\ UNCHANGED blocks
           ELSE IF blocks[j].encrypted
           THEN /\ last' = Call("cmd_enc", target, "print_err: Bloc deja chiffre")
                /\ UNCHANGED blocks
           ELSE \E rnd \in Randoms :
                   LET b == IF blocks[j].type = 1 THEN _rebuild_content(blocks[j])
                            ELSE blocks[j]
                   IN  /\ blocks' = [blocks EXCEPT ![j] =
                             [b EXCEPT !.content =
                                   crypto_encrypt(b.content, pwd, rnd[1], rnd[2]),
                                !.encrypted = TRUE]]
                       /\ last' = Call("cmd_enc", target, "print_ok")

\* the blocks after jf.decrypt_block(link, pwd) has succeeded on block j
decrypted(bs, j, pt) ==
    [bs EXCEPT ![j] = [@ EXCEPT !.content = pt, !.encrypted = FALSE, !.data = <<>>]]

\* cmd_dec, pwd being the password typed
cmd_dec(target, pwd) ==
    LET i == resolve(blocks, target)
        j == index_by_link(blocks, target)
    IN  /\ UNCHANGED <<comments, disk, saves>>
        /\ IF i = 0
           THEN /\ last' = Call("cmd_dec", target, "print_err: Bloc introuvable")
                /\ UNCHANGED blocks
           ELSE IF ~blocks[i].encrypted
           THEN /\ last' = Call("cmd_dec", target, "print_err: Ce bloc n'est pas chiffre")
                /\ UNCHANGED blocks
           \* jf.decrypt_block(target, pwd): what it returns is not looked at;
           \* display_block(block) follows
           ELSE IF j = 0
           THEN /\ last' = Call("cmd_dec", target, "print_ok")
                /\ blocks' = [blocks EXCEPT ![i] = display_block(@)]
           ELSE IF ~blocks[j].encrypted
           THEN /\ last' = Call("cmd_dec", target, "print_err: Bloc non chiffre")
                /\ UNCHANGED blocks
           ELSE IF ~crypto_decrypt(blocks[j].content, pwd).ok
           THEN /\ last' = Call("cmd_dec", target,
                       "print_err: Mot de passe incorrect ou donnees corrompues")
                /\ UNCHANGED blocks
           ELSE /\ last' = Call("cmd_dec", target, "print_ok")
                /\ blocks' =
                      [decrypted(blocks, j, crypto_decrypt(blocks[j].content, pwd).pt)
                          EXCEPT ![i] = display_block(@)]

\* cmd_del, confirm being the answer typed to "Supprimer ?"
cmd_del(target, confirm) ==
    LET j == index_by_link(blocks, target)
    IN  /\ UNCHANGED <<comments, disk, saves>>
        /\ IF confirm \notin {"oui", "o", "yes", "y"}
           THEN /\ last' = Call("cmd_del", target, "None")
                /\ UNCHANGED blocks
           ELSE IF j # 0
           THEN /\ blocks' = SubSeq(blocks, 1, j - 1) \o From(blocks, j + 1)
                /\ last' = Call("cmd_del", target, "print_ok")
           ELSE /\ last' = Call("cmd_del", target, "print_err: Bloc introuvable")
                /\ UNCHANGED blocks

\* the shell: a file opened by cmd_open or made by cmd_new, and the commands
NextShell ==
    \/ \E t \in Targets, pwd \in Passwords, pwd2 \in Passwords : cmd_enc(t, pwd, pwd2)
    \/ \E t \in Targets, pwd \in Passwords : cmd_dec(t, pwd)
    \/ \E t \in Targets, confirm \in {"oui", "non"} : cmd_del(t, confirm)

SpecShell == Init /\ [][NextShell]_vars

(***************************************************************************)
(* What the claims are stated with.                                        *)
(***************************************************************************)
AuthenticationFailed == "ValueError: Mot de passe incorrect ou donnees corrompues"

AlreadyEncrypted == "ValueError: Bloc deja chiffre"

NotEncrypted == "ValueError: Bloc non chiffre"

DuplicateLink == "ValueError: lien existe deja"

\* a block of bs has the link
HasLink(bs, link) == \E i \in 1..Len(bs) : bs[i].link = link

\* the index of the first block of bs with the link
First(bs, link) ==
    CHOOSE i \in 1..Len(bs) :
        bs[i].link = link /\ \A j \in 1..(i - 1) : bs[j].link # link

\* the content is a package that encrypt made under the password
EncryptedWith(content, password) ==
    LET r == crypto_decrypt(content, password)
    IN  /\ r.ok
        /\ \E rnd \in Randoms :
              content = crypto_encrypt(r.pt, password, rnd[1], rnd[2])

\* the key/value mapping a content stands for
ViewOf(content) == parse_lines(splitlines(strip(content)), <<>>)

\* the structured view of a block: the cached mapping, or that of its content
View(b) == IF b.data # <<>> THEN b.data[1] ELSE ViewOf(b.content)

\* a mapping rendered one "  key: value" line per entry
Rendered(d) == join(<<"\n">>, [i \in 1..Len(d) |-> item_line(d[i])])

\* C1: decrypt with a password other than the one the block was encrypted with
\* fails with the authentication error and leaves every block as it was.
C1_WrongPasswordLeavesBlock ==
    [][\A l \in Links, pw \in Passwords :
        ( /\ last'.op = "decrypt_block"
          /\ decrypt_block(l, pw)
          /\ HasLink(blocks, l)
          /\ blocks[First(blocks, l)].encrypted
          /\ \E pw0 \in Passwords \ {pw} :
                EncryptedWith(blocks[First(blocks, l)].content, pw0) )
        => /\ last'.out = AuthenticationFailed
           /\ blocks' = blocks]_vars

\* a decrypt with the wrong password has just failed on an encrypted block
C1_Witness ==
    /\ last.op = "decrypt_block"
    /\ last.out = AuthenticationFailed
    /\ HasLink(blocks, last.link)
    /\ blocks[First(blocks, last.link)].encrypted
    /\ \E pw \in Passwords :
          EncryptedWith(blocks[First(blocks, last.link)].content, pw)

\* C2: parsing the serialization of a parsed file gives the same blocks, content
\* included, as the first parse gave.
C2_ReparseIsIdentical ==
    last.op = "load" =>
        LET again == parse_blocks(file_to_jdat(comments, blocks), 1)
        IN  /\ Len(again) = Len(blocks)
            /\ \A i \in 1..Len(blocks) :
                  /\ again[i].name = blocks[i].name
                  /\ again[i].link = blocks[i].link
                  /\ again[i].type = blocks[i].type
                  /\ again[i].content = blocks[i].content
                  /\ again[i].encrypted = blocks[i].encrypted

\* C3: get and set on an encrypted block raise an error and leave the block as
\* it was (no view cached, content not modified).
C3_StructuralAccessOnEncryptedRaises ==
    [][\A l \in Links, k \in Keys, v \in Values :
        ( /\ last'.op \in {"get", "set"}
          /\ block_get(l, k) \/ block_set(l, k, v)
          /\ blocks[First(blocks, l)].encrypted )
        => /\ Raised(last'.out)
           /\ blocks' = blocks]_vars

\* C4: assigning content to an unencrypted type 1 block whose view is cached
\* invalidates the cache: get reads the new content, and serialization emits it.
C4_AssignmentInvalidatesView ==
    [][\A l \in Links, c \in Contents :
        ( /\ last'.op = "content"
          /\ block_content(l, c)
          /\ c # blocks[First(blocks, l)].content
          /\ blocks[First(blocks, l)].type = 1
          /\ blocks[First(blocks, l)].data # <<>> )
        => LET b == blocks'[First(blocks, l)]
           IN  /\ \A k \in Keys : get(b, k, <<>>) = dict_get(ViewOf(c), k, <<>>)
               /\ block_flush(b).content = c]_vars

\* C5: encrypt and decrypt on a link that no block has end with an error, not
\* with a returned value, and leave every block as it was.
C5_AbsentLinkRaises ==
    [][\A l \in Links, pw \in Passwords :
        ( /\ last'.op \in {"encrypt_block", "decrypt_block"}
          /\ encrypt_block(l, pw) \/ decrypt_block(l, pw)
          /\ ~HasLink(blocks, l) )
        => /\ Raised(last'.out)
           /\ blocks' = blocks]_vars

\* C6: encrypting a parsed type 1 block seals exactly the canonical lines of its
\* view, so that decrypt under the same password leaves the block unencrypted
\* with those lines as content and the same view as before.
C6_RoundTripRestoresCanonicalLines ==
    [][\A l \in Links, pw \in Passwords :
        /\ ( /\ last'.op = "encrypt_block"
             /\ encrypt_block(l, pw)
             /\ HasLink(blocks, l)
             /\ blocks[First(blocks, l)].type = 1
             /\ ~blocks[First(blocks, l)].encrypted )
           => LET r == crypto_decrypt(blocks'[First(blocks, l)].content, pw)
              IN  /\ r.ok
                  /\ r.pt = Rendered(View(blocks[First(blocks, l)]))
        /\ ( /\ last'.op = "decrypt_block"
             /\ decrypt_block(l, pw)
             /\ HasLink(blocks, l)
             /\ blocks[First(blocks, l)].type = 1
             /\ blocks[First(blocks, l)].encrypted
             /\ crypto_decrypt(blocks[First(blocks, l)].content, pw).ok )
           => LET r == crypto_decrypt(blocks[First(blocks, l)].content, pw)
                  b == blocks'[First(blocks, l)]
              IN  /\ ~b.encrypted
                  /\ b.content = r.pt
                  /\ parse_data(b) = ViewOf(r.pt)]_vars

C8_LinksDistinct ==
    \A i, j \in 1..Len(blocks) : blocks[i].link = blocks[j].link => i = j

\* two blocks are in the file, and one of them has been encrypted
C8_Witness ==
    /\ Len(blocks) = 2
    /\ last.op = "encrypt_block"
    /\ last.out = "True"

\* the index of the key in a mapping, 0 if it has none
KeyIndex(d, key) ==
    IF \E i \in 1..Len(d) : d[i][1] = key
    THEN CHOOSE i \in 1..Len(d) : d[i][1] = key
    ELSE 0

\* a mapping without its entries of the key
RECURSIVE Without(_, _)
Without(d, key) ==
    IF d = <<>> THEN <<>>
    ELSE IF Head(d)[1] = key THEN Without(Tail(d), key)
    ELSE <<Head(d)>> \o Without(Tail(d), key)

\* C9: set on an unencrypted type 1 block leaves one entry for the key, with the
\* value, where the key was (at the end if it was not there), the other
\* entries as they were, and content the rendering of the mapping; so a second
\* set of the key keeps the place the first gave it.
C9_SetKeepsPosition ==
    [][\A l \in Links, k \in Keys, v \in Values :
        ( /\ last'.op = "set"
          /\ block_set(l, k, v)
          /\ blocks[First(blocks, l)].type = 1
          /\ ~blocks[First(blocks, l)].encrypted )
        => LET old == View(blocks[First(blocks, l)])
               b   == blocks'[First(blocks, l)]
               new == b.data[1]
           IN  /\ Cardinality({i \in 1..Len(new) : new[i][1] = k}) = 1
               /\ new[KeyIndex(new, k)][2] = v
               /\ KeyIndex(new, k) =
                     IF KeyIndex(old, k) # 0 THEN KeyIndex(old, k)
                     ELSE Len(old) + 1
               /\ Without(new, k) = Without(old, k)
               /\ b.content = Rendered(new)]_vars

\* a key set before has been set again: it is first, before a later key
C9_Witness ==
    /\ last.op = "set"
    /\ HasLink(blocks, last.link)
    /\ LET b == blocks[First(blocks, last.link)]
       IN  /\ b.type = 1
           /\ ~b.encrypted
           /\ b.data # <<>>
           /\ Len(b.data[1]) = 2
           /\ b.data[1][1] = <<KeyAge, <<"v">>>>
           /\ b.content = Rendered(b.data[1])

\* C10: encrypt on an encrypted block fails with AlreadyEncrypted and decrypt on
\* an unencrypted block with NotEncrypted, the block unchanged; the flag of a
\* block goes from false to true only by an encrypt that succeeds on it, and
\* from true to false only by a decrypt that succeeds on it.
C10_TwoStateProtocol ==
    [][/\ \A l \in Links, pw \in Passwords :
            /\ ( /\ last'.op = "encrypt_block"
                 /\ encrypt_block(l, pw)
                 /\ HasLink(blocks, l)
                 /\ blocks[First(blocks, l)].encrypted )
               => last'.out = AlreadyEncrypted /\ blocks' = blocks
            /\ ( /\ last'.op = "decrypt_block"
                 /\ decrypt_block(l, pw)
                 /\ HasLink(blocks, l)
                 /\ ~blocks[First(blocks, l)].encrypted )
               => last'.out = NotEncrypted /\ blocks' = blocks
       /\ \A i \in 1..Len(blocks), j \in 1..Len(blocks') :
            ( /\ blocks[i].link = blocks'[j].link
              /\ blocks[i].encrypted # blocks'[j].encrypted )
            => /\ last'.out = "True"
               /\ last'.link = blocks[i].link
               /\ last'.op = IF blocks[i].encrypted THEN "decrypt_block"
                             ELSE "encrypt_block"]_vars

\* encrypt has just been refused on a block that is encrypted
C10_Witness ==
    /\ last.op = "encrypt_block"
    /\ last.out = AlreadyEncrypted
    /\ HasLink(blocks, last.link)
    /\ blocks[First(blocks, last.link)].encrypted

\* the blocks of bs but the one at index i
Drop(bs, i) == [j \in 1..(Len(bs) - 1) |-> IF j < i THEN bs[j] ELSE bs[j + 1]]

\* the number of blocks of bs with the link
LinkCount(bs, link) == Cardinality({i \in 1..Len(bs) : bs[i].link = link})

\* the index of the second block of bs with the link
Second(bs, link) ==
    CHOOSE j \in 1..Len(bs) :
        /\ j > First(bs, link)
        /\ bs[j].link = link
        /\ \A k \in (First(bs, link) + 1)..(j - 1) : bs[k].link # link

\* C11: in a file parsed with several blocks of one link, lookup by link gives
\* the first of them; remove deletes that first block only, returns true and
\* keeps the other blocks in their order, so that the next lookup gives the
\* block that was second; remove of a link no block has returns false and
\* changes nothing.
C11_FirstMatchLookupAndRemove ==
    [][\A l \in Links :
        /\ HasLink(blocks, l) => index_by_link(blocks, l) = First(blocks, l)
        /\ (last'.op = "remove_block" /\ remove_block(l))
           => IF HasLink(blocks, l)
              THEN /\ last'.out = "True"
                   /\ blocks' = Drop(blocks, First(blocks, l))
                   /\ LinkCount(blocks, l) > 1
                      => /\ index_by_link(blocks', l) # 0
                         /\ blocks'[index_by_link(blocks', l)]
                               = blocks[Second(blocks, l)]
              ELSE /\ last'.out = "False"
                   /\ blocks' = blocks]_vars

\* remove has just deleted the first of two parsed blocks of one link: the
\* other is still in the file
C11_Witness ==
    /\ last.op = "remove_block"
    /\ last.out = "True"
    /\ HasLink(blocks, last.link)
    /\ disk # <<>>

C13_ShellSuccessImpliesState ==
    [][\A t \in Targets, pwd \in Passwords :
        /\ ( /\ last'.op = "cmd_enc"
             /\ cmd_enc(t, pwd, pwd)
             /\ last'.out = "print_ok" )
           => blocks'[resolve(blocks, t)].encrypted
        /\ ( /\ last'.op = "cmd_dec"
             /\ cmd_dec(t, pwd)
             /\ last'.out = "print_ok" )
           => ~blocks'[resolve(blocks, t)].encrypted]_vars

====
